---- MODULE Spec2Model ----
(***************************************************************************)
(* Model of the merge-and-reorder pipeline of cmf-affectiveExpression:     *)
(*   merge_affectiveExpression.py  (clean_header, collect_sentences,       *)
(*       call_openai_merge, backoff_call, process_file, main)              *)
(*   merge_rearrange.py            (normalize_code, rearrange_file, main)  *)
(* Text is modelled as a sequence of one-character strings, so that the    *)
(* regular expressions and str methods are computed character by           *)
(* character.                                                              *)
(***************************************************************************)
EXTENDS Integers, Sequences, FiniteSets, TLC

VARIABLES
    \* ---- the string functions under test (normalize_code, clean_header)
    pcF,        \* position: "init", "once", "twice", "done"
    arg,        \* the argument string
    once,       \* f(arg)
    twice,      \* f(f(arg))
    upper,      \* f(arg.upper())
    \* ---- a run of a stage (main, or one process_file / rearrange_file call)
    pc,         \* position in the running function
    inputs,     \* the input files of the run, in the order they are processed
    fileIdx,    \* the file being processed
    outputs,    \* per input file: whether its output was written, and the rows
    raised,     \* the exception that ended the run, or NoError
    \* ---- rearrange_file
    orders,     \* desired_order of each input file
    rowIdx,     \* cursor of the loop over df.iterrows()
    mapping,    \* normalized key -> (orig_code, paragraph)
    ordIdx,     \* cursor of the loop over desired_order
    output_rows,
    missing,
    \* ---- process_file / backoff_call / call_openai_merge
    program,    \* the entry point that runs
    api_key,    \* whether OPENAI_API_KEY is set in the environment
    sdk,        \* whether the openai package can be imported
    colIdx,     \* cursor of the loop over sample_codes
    results,    \* the (code, merged_paragraph) records appended so far
    sentences,  \* collect_sentences of the current column
    attempt,    \* backoff_call's loop variable
    ret,        \* the value call_openai_merge returns
    err,        \* the exception call_openai_merge raises
    \* what the current column's backoff_call did, as seen from outside
    calls,      \* number of invocations of call_openai_merge
    callLog,    \* how each finished invocation ended
    sleeps,     \* the arguments of time.sleep, in order
    requests,   \* the requests the current invocation issued, in order
    chatReply,  \* how the chat.completions request ended
    respReply   \* how the responses request ended

pureVars == <<pcF, arg, once, twice, upper>>
runVars == <<pc, inputs, fileIdx, outputs, raised>>
rearrVars == <<orders, rowIdx, mapping, ordIdx, output_rows, missing>>

mergeVars == <<program, api_key, sdk, colIdx, results, sentences, attempt, ret, err,
               calls, callLog, sleeps, requests, chatReply, respReply>>
stageVars == <<runVars, rearrVars, mergeVars>>

vars == <<pureVars, stageVars>>

-----------------------------------------------------------------------------
(* Bounds of the model *)

MaxCodeLen == 3
MaxHeaderLen == 5
MaxTableRows == 2
MaxOrderLen == 3
MaxCols == 2

(* Program constants *)

\* backoff_call's default retries
retries == 5

-----------------------------------------------------------------------------
(* Text helpers: Python's str.strip / re "\s" / str.lower / str.upper *)

\* The strings of at most n characters over an alphabet.
StringsUpTo(n, alphabet) == UNION {[1..k -> alphabet] : k \in 0..n}

\* str.isspace and the regex class \s, on the model's alphabet
IsSpace(ch) == ch \in {" ", "\t"}

\* the regex class \d, on the model's alphabet
IsDigit(ch) == ch \in {"1", "2"}

RECURSIVE LStrip(_)
LStrip(s) == IF s # <<>> /\ IsSpace(Head(s)) THEN LStrip(Tail(s)) ELSE s

RECURSIVE RStrip(_)
RStrip(s) ==
    IF s # <<>> /\ IsSpace(s[Len(s)]) THEN RStrip(SubSeq(s, 1, Len(s) - 1)) ELSE s

\* str.strip()
Strip(s) == RStrip(LStrip(s))

LowerChar(ch) == IF ch = "A" THEN "a" ELSE IF ch = "B" THEN "b" ELSE ch
UpperChar(ch) == IF ch = "a" THEN "A" ELSE IF ch = "b" THEN "B" ELSE ch

\* str.lower() / str.upper()
Lower(s) == [i \in 1..Len(s) |-> LowerChar(s[i])]
Upper(s) == [i \in 1..Len(s) |-> UpperChar(s[i])]

-----------------------------------------------------------------------------
(* merge_rearrange.py: normalize_code *)

\* _MULTISPACE_RE.sub(" ", s): every maximal whitespace run becomes one " "
RECURSIVE MultispaceSub(_)
MultispaceSub(s) ==
    IF s = <<>> THEN <<>>
    ELSE IF IsSpace(Head(s)) THEN <<" ">> \o MultispaceSub(LStrip(s))
    ELSE <<Head(s)>> \o MultispaceSub(Tail(s))

\* s.rstrip("/"): every trailing "/" is removed
RECURSIVE RStripSlash(_)
RStripSlash(s) ==
    IF s # <<>> /\ s[Len(s)] = "/" THEN RStripSlash(SubSeq(s, 1, Len(s) - 1)) ELSE s

normalize_code(code) == Lower(RStripSlash(MultispaceSub(Strip(code))))

-----------------------------------------------------------------------------
(* merge_affectiveExpression.py: clean_header *)

RECURSIVE DropDigits(_)
DropDigits(s) == IF s # <<>> /\ IsDigit(Head(s)) THEN DropDigits(Tail(s)) ELSE s

\* _HEADER_PREFIX_RE.sub("", header) with the pattern ^\s*\d+\.\s* : the one
\* match the anchor allows is removed, or the header is left as it is.
HeaderPrefixSub(header) ==
    LET a == LStrip(header)
        d == DropDigits(a)
    IN  IF Len(d) < Len(a) /\ d # <<>> /\ Head(d) = "."
        THEN LStrip(Tail(d))
        ELSE header

clean_header(header) == Strip(HeaderPrefixSub(header))

\* whether the header starts with an enumeration marker "<digits>."
HasMarker(header) == HeaderPrefixSub(header) # header

-----------------------------------------------------------------------------
(* The parts of the state a program does not use *)

Error(type, origin, n) == [type |-> type, origin |-> origin, invocation |-> n]
NoError == Error("none", "none", 0)
NoReply == [kind |-> "none", content |-> <<>>]
NotWritten == [written |-> FALSE, rows |-> <<>>]

PureIdle ==
    /\ pcF = "idle"
    /\ arg = <<>> /\ once = <<>> /\ twice = <<>> /\ upper = <<>>

RunIdle ==
    /\ pc = "idle"
    /\ inputs = <<>> /\ fileIdx = 0 /\ outputs = <<>> /\ raised = NoError

RearrIdle ==
    /\ orders = <<>>
    /\ rowIdx = 0 /\ mapping = <<>> /\ ordIdx = 0
    /\ output_rows = <<>> /\ missing = <<>>

\* the state of one column's processing before it starts
ColumnFresh ==
    /\ sentences = <<>> /\ attempt = 0 /\ ret = <<>> /\ err = NoError
    /\ calls = 0 /\ callLog = <<>> /\ sleeps = <<>> /\ requests = <<>>
    /\ chatReply = NoReply /\ respReply = NoReply

MergeIdle ==
    /\ api_key = FALSE /\ sdk = FALSE
    /\ colIdx = 0 /\ results = <<>>
    /\ ColumnFresh

-----------------------------------------------------------------------------
(* The string functions as programs: apply, apply again, apply to upper() *)

CodeChars == {" ", "\t", "/", "a", "A"}
HeaderChars == {" ", "1", ".", "x"}

InitNormalize ==
    /\ pcF = "init"
    /\ arg \in StringsUpTo(MaxCodeLen, CodeChars)
    /\ once = <<>> /\ twice = <<>> /\ upper = <<>>
    /\ RunIdle /\ RearrIdle /\ MergeIdle
    /\ program = "string function"

ApplyNormalize ==
    /\ pcF = "init"
    /\ once' = normalize_code(arg)
    /\ pcF' = "once"
    /\ UNCHANGED <<arg, twice, upper, stageVars>>

ReapplyNormalize ==
    /\ pcF = "once"
    /\ twice' = normalize_code(once)
    /\ pcF' = "twice"
    /\ UNCHANGED <<arg, once, upper, stageVars>>

ApplyNormalizeUpper ==
    /\ pcF = "twice"
    /\ upper' = normalize_code(Upper(arg))
    /\ pcF' = "done"
    /\ UNCHANGED <<arg, once, twice, stageVars>>

NextNormalize == ApplyNormalize \/ ReapplyNormalize \/ ApplyNormalizeUpper

SpecNormalize == InitNormalize /\ [][NextNormalize]_vars

InitHeader ==
    /\ pcF = "init"
    /\ arg \in StringsUpTo(MaxHeaderLen, HeaderChars)
    /\ once = <<>> /\ twice = <<>> /\ upper = <<>>
    /\ RunIdle /\ RearrIdle /\ MergeIdle
    /\ program = "string function"

ApplyCleanHeader ==
    /\ pcF = "init"
    /\ once' = clean_header(arg)
    /\ pcF' = "once"
    /\ UNCHANGED <<arg, twice, upper, stageVars>>

ReapplyCleanHeader ==
    /\ pcF = "once"
    /\ twice' = clean_header(once)
    /\ pcF' = "done"
    /\ UNCHANGED <<arg, once, upper, stageVars>>

NextHeader == ApplyCleanHeader \/ ReapplyCleanHeader

SpecHeader == InitHeader /\ [][NextHeader]_vars

-----------------------------------------------------------------------------
(* merge_rearrange.py: read_csv_smart, ensure_columns, rearrange_file, main *)

\* A merged-table file is a table of (sample_code, gpt_paragraph) rows, or a
\* file no candidate encoding parses, or a table of fewer than two columns.
TableCodes == {<<"a">>, <<"A", "/">>, <<"B">>, <<"z">>}
Paragraphs == {"x", "y"}
TableRows == TableCodes \X Paragraphs
OrderCodes == {<<"A">>, <<"b", " ">>, <<"C">>}

TableFile(rows) == [kind |-> "table", rows |-> rows]
UnparseableFile == [kind |-> "unparseable", rows |-> <<>>]
NarrowFile == [kind |-> "narrow", rows |-> <<>>]

MergedFiles ==
    {TableFile(r) : r \in StringsUpTo(MaxTableRows, TableRows)}
        \cup {UnparseableFile, NarrowFile}

\* read_csv_smart: every encoding of encodings_to_try is tried in turn; the
\* first parse is returned, and when none parses RuntimeError is raised.
read_csv_smart(file) ==
    IF file.kind = "unparseable"
    THEN [ok |-> FALSE, error |-> Error("RuntimeError", "read_csv_smart", 0), rows |-> <<>>]
    ELSE [ok |-> TRUE, error |-> NoError, rows |-> file.rows]

\* ensure_columns: the two named columns, else the first two columns;
\* ValueError when the table has fewer than two columns.
ensure_columns(file) ==
    IF file.kind = "narrow"
    THEN [ok |-> FALSE, error |-> Error("ValueError", "ensure_columns", 0), rows |-> <<>>]
    ELSE [ok |-> TRUE, error |-> NoError, rows |-> file.rows]

\* if key not in mapping: mapping[key] = (orig_code, paragraph)
MappingInsertOverwrite(m, key, row) ==
    [k \in DOMAIN m \cup {key} |-> IF k = key THEN row ELSE m[k]]

MappingInsert(m, key, row) ==
    IF key \in DOMAIN m
    THEN m
    ELSE [k \in DOMAIN m \cup {key} |-> IF k = key THEN row ELSE m[k]]

\* output_rows.append(mapping[key])
EmittedRowCanonicalSpelling(m, code) == <<code, m[normalize_code(code)][2]>>

EmittedRow(m, code) == m[normalize_code(code)]

df == inputs[fileIdx].rows
desired_order == orders[fileIdx]

\* lines 65-67 and the initialisations of lines 70, 79, 80
RearrangeLoad ==
    /\ pc = "load"
    /\ LET r == read_csv_smart(inputs[fileIdx])
           e == ensure_columns(inputs[fileIdx])
       IN  IF ~r.ok THEN /\ pc' = "raised" /\ raised' = r.error
                         /\ UNCHANGED <<rowIdx, mapping>>
           ELSE IF ~e.ok THEN /\ pc' = "raised" /\ raised' = e.error
                              /\ UNCHANGED <<rowIdx, mapping>>
           ELSE /\ pc' = "index" /\ rowIdx' = 1 /\ mapping' = <<>>
                /\ UNCHANGED raised
    /\ UNCHANGED <<inputs, fileIdx, outputs, orders, ordIdx, output_rows, missing,
                   pureVars, mergeVars>>

\* one iteration of the loop over df.iterrows(), lines 71-77
RearrangeIndexRow ==
    /\ pc = "index"
    /\ rowIdx <= Len(df)
    /\ LET orig_code == df[rowIdx][1]
           key == normalize_code(orig_code)
       IN  mapping' = MappingInsert(mapping, key, df[rowIdx])
    /\ rowIdx' = rowIdx + 1
    /\ UNCHANGED <<pc, inputs, fileIdx, outputs, raised, orders, ordIdx,
                   output_rows, missing, pureVars, mergeVars>>

\* the loop over the rows ends; lines 79-80
RearrangeIndexDone ==
    /\ pc = "index"
    /\ rowIdx > Len(df)
    /\ pc' = "emit"
    /\ ordIdx' = 1 /\ output_rows' = <<>> /\ missing' = <<>>
    /\ UNCHANGED <<inputs, fileIdx, outputs, raised, orders, rowIdx, mapping,
                   pureVars, mergeVars>>

\* one iteration of the loop over desired_order, lines 82-87
RearrangeEmit ==
    /\ pc = "emit"
    /\ ordIdx <= Len(desired_order)
    /\ LET code == desired_order[ordIdx]
           key == normalize_code(code)
       IN  IF key \in DOMAIN mapping
           THEN /\ output_rows' = Append(output_rows, EmittedRow(mapping, code))
                /\ UNCHANGED missing
           ELSE /\ missing' = Append(missing, code)
                /\ UNCHANGED output_rows
    /\ ordIdx' = ordIdx + 1
    /\ UNCHANGED <<runVars, orders, rowIdx, mapping, pureVars, mergeVars>>

\* out_df.to_csv(out_csv), lines 89-94; the function returns
RearrangeWrite ==
    /\ pc = "emit"
    /\ ordIdx > Len(desired_order)
    /\ outputs' = [outputs EXCEPT ![fileIdx] = [written |-> TRUE, rows |-> output_rows]]
    /\ pc' = "returned"
    /\ UNCHANGED <<inputs, fileIdx, raised, rearrVars, pureVars, mergeVars>>

\* One call of rearrange_file on one merged file and one canonical order
InitRearrange ==
    /\ PureIdle /\ MergeIdle
    /\ program = "rearrange_file"
    /\ pc = "load"
    /\ inputs \in {<<f>> : f \in MergedFiles}
    /\ orders \in {<<o>> : o \in StringsUpTo(MaxOrderLen, OrderCodes)}
    /\ fileIdx = 1
    /\ outputs = <<NotWritten>>
    /\ raised = NoError
    /\ rowIdx = 0 /\ mapping = <<>> /\ ordIdx = 0
    /\ output_rows = <<>> /\ missing = <<>>

NextRearrange ==
    \/ RearrangeLoad
    \/ RearrangeIndexRow
    \/ RearrangeIndexDone
    \/ RearrangeEmit
    \/ RearrangeWrite

SpecRearrange == InitRearrange /\ [][NextRearrange]_vars

-----------------------------------------------------------------------------
(* merge_affectiveExpression.py: the raw table and the sentence collector *)

\* A cell of the raw table: absent (NaN), or text
NaN == [na |-> TRUE, text |-> <<>>]
Cell(text) == [na |-> FALSE, text |-> text]

\* Raw column headers; two of them carry the same sample code behind
\* different enumeration markers.
RawHeaders == {<<"1", ".", " ", "A">>, <<"2", ".", "A">>, <<"B">>}

\* The cells of one column (every column of a table has the same rows)
RawCells ==
    { <<NaN, Cell(<<" ">>)>>,
      <<Cell(<<" ", "s", " ">>), NaN>>,
      <<Cell(<<"s">>), Cell(<<"t">>)>> }

RawColumns == [header : RawHeaders, cells : RawCells]

\* pandas.read_csv renames repeated headers, so the raw headers of a table
\* are distinct.
DistinctHeaders(cols) ==
    \A i, j \in 1..Len(cols) : cols[i].header = cols[j].header => i = j

RawTables(n) == {c \in StringsUpTo(n, RawColumns) : DistinctHeaders(c)}

RawFile(cols) == [kind |-> "table", columns |-> cols]
UnparseableRawFile == [kind |-> "unparseable", columns |-> <<>>]

\* read_csv_smart of the merge stage: the first encoding that parses, and
\* RuntimeError when none does
raw_read_csv_smart(file) ==
    IF file.kind = "unparseable"
    THEN [ok |-> FALSE, error |-> Error("RuntimeError", "read_csv_smart", 0)]
    ELSE [ok |-> TRUE, error |-> NoError]

\* clean_column_names, then sample_codes = list(df.columns)
sample_codes(file) ==
    [i \in 1..Len(file.columns) |-> clean_header(file.columns[i].header)]

\* collect_sentences on a Series: dropna, strip, keep the non-empty texts
RECURSIVE collect_sentences(_)
collect_sentences(series) ==
    IF series = <<>> THEN <<>>
    ELSE LET value == Head(series)
             rest == collect_sentences(Tail(series))
         IN  IF value.na THEN rest
             ELSE IF Strip(value.text) # <<>> THEN <<Strip(value.text)>> \o rest
             ELSE rest

\* col_series = df[code]; sentences = collect_sentences(col_series).
\* When a single column carries the label, df[code] is that column.  When
\* several cleaned headers are equal, df[code] is a DataFrame of all of them
\* and the loop of collect_sentences runs over its column labels.
column_sentences(file, i) ==
    LET codes == sample_codes(file)
        same == {j \in 1..Len(codes) : codes[j] = codes[i]}
    IN  IF Cardinality(same) = 1
        THEN collect_sentences(file.columns[i].cells)
        ELSE IF Strip(codes[i]) # <<>>
             THEN [n \in 1..Cardinality(same) |-> Strip(codes[i])]
             ELSE <<>>

-----------------------------------------------------------------------------
(* merge_affectiveExpression.py: call_openai_merge *)

\* How client.chat.completions.create can end: it raises; or it answers with
\* no choices, with a content of None, or with a text.
ChatOutcomes ==
    { [kind |-> "raise", content |-> <<>>],
      [kind |-> "no_choices", content |-> <<>>],
      [kind |-> "content_none", content |-> <<>>],
      [kind |-> "content", content |-> <<" ", "p", " ">>] }

\* How client.responses.create can end: it raises; or it answers with an
\* output_text (None or a text), with an output list holding a text, or with
\* something none of the parsers reads.
ResponsesOutcomes ==
    { [kind |-> "raise", content |-> <<>>],
      [kind |-> "output_text_none", content |-> <<>>],
      [kind |-> "output_text", content |-> <<"q", " ">>],
      [kind |-> "output_list", content |-> <<" ", "q">>],
      [kind |-> "unreadable", content |-> <<>>] }

Returned(value) == [pc |-> "merge_returned", ret |-> value, err |-> NoError]
Raised(type, n) ==
    [pc |-> "merge_raised", ret |-> <<>>,
     err |-> Error(type, "call_openai_merge", n)]

\* lines 64-83: the empty list returns "", the missing key raises
\* EnvironmentError, the missing package raises ImportError; else the
\* chat.completions request is next.
MergeEntryResult(sents, key, package, n) ==
    IF sents = <<>> THEN Returned(<<>>)
    ELSE IF ~key THEN Raised("EnvironmentError", n)
    ELSE IF ~package THEN Raised("ImportError", n)
    ELSE [pc |-> "chat", ret |-> <<>>, err |-> NoError]

\* lines 85-96: the stripped content is returned; on any exception the
\* responses request is next
ChatResult(outcome) ==
    IF outcome.kind = "raise"
    THEN [pc |-> "responses", ret |-> <<>>, err |-> NoError]
    ELSE Returned(Strip(outcome.content))

ResponsesResultSwallow(outcome, n) == Returned(Strip(outcome.content))

\* lines 98-119: the stripped text is returned, "" when nothing is read;
\* an exception of the request becomes RuntimeError
ResponsesResult(outcome, n) ==
    IF outcome.kind = "raise"
    THEN Raised("RuntimeError", n)
    ELSE Returned(Strip(outcome.content))

\* backoff_call line 129 calls call_openai_merge, which runs to its first
\* request.  Line 137 is where the loop would end without a call.
MergeEntry ==
    /\ pc = "call"
    /\ IF attempt >= retries
       THEN /\ pc' = "merge_returned" /\ ret' = <<>> /\ err' = NoError
            /\ UNCHANGED <<calls, requests, chatReply, respReply>>
       ELSE LET r == MergeEntryResult(sentences, api_key, sdk, calls + 1)
            IN  /\ calls' = calls + 1
                /\ requests' = <<>> /\ chatReply' = NoReply /\ respReply' = NoReply
                /\ pc' = r.pc /\ ret' = r.ret /\ err' = r.err
    /\ UNCHANGED <<inputs, fileIdx, outputs, raised, program, api_key, sdk, colIdx,
                   results, sentences, attempt, callLog, sleeps, pureVars, rearrVars>>

\* the chat.completions request and its answer
MergeChat ==
    /\ pc = "chat"
    /\ \E outcome \in ChatOutcomes :
          LET r == ChatResult(outcome)
          IN  /\ requests' = Append(requests, "chat")
              /\ chatReply' = outcome
              /\ pc' = r.pc /\ ret' = r.ret /\ err' = r.err
    /\ UNCHANGED <<inputs, fileIdx, outputs, raised, program, api_key, sdk, colIdx,
                   results, sentences, attempt, calls, callLog, sleeps, respReply,
                   pureVars, rearrVars>>

\* the responses request and its answer
MergeResponses ==
    /\ pc = "responses"
    /\ \E outcome \in ResponsesOutcomes :
          LET r == ResponsesResult(outcome, calls)
          IN  /\ requests' = Append(requests, "responses")
              /\ respReply' = outcome
              /\ pc' = r.pc /\ ret' = r.ret /\ err' = r.err
    /\ UNCHANGED <<inputs, fileIdx, outputs, raised, program, api_key, sdk, colIdx,
                   results, sentences, attempt, calls, callLog, sleeps, chatReply,
                   pureVars, rearrVars>>

-----------------------------------------------------------------------------
(* merge_affectiveExpression.py: backoff_call *)

\* sleep_s = 2 ** attempt
BackoffDelayLinear(n) == 2 * n

BackoffDelay(n) == 2 ^ n

\* if attempt == retries - 1: raise
IsLastAttemptOffByOne(n) == n = retries

IsLastAttempt(n) == n = retries - 1

\* line 129 returns the value to process_file, which appends the record
\* (lines 151-153) and goes on to the next column
BackoffReturn ==
    /\ pc = "merge_returned"
    /\ callLog' = IF attempt >= retries THEN callLog
                  ELSE Append(callLog, [raised |-> FALSE, value |-> ret, error |-> NoError])
    /\ results' = Append(results, <<sample_codes(inputs[fileIdx])[colIdx], ret>>)
    /\ colIdx' = colIdx + 1
    /\ pc' = "column"
    /\ UNCHANGED <<inputs, fileIdx, outputs, raised, program, api_key, sdk, sentences,
                   attempt, ret, err, calls, sleeps, requests, chatReply, respReply,
                   pureVars, rearrVars>>

\* lines 130-136: the last attempt re-raises, the others sleep and loop
BackoffExcept ==
    /\ pc = "merge_raised"
    /\ callLog' = Append(callLog, [raised |-> TRUE, value |-> <<>>, error |-> err])
    /\ IF IsLastAttempt(attempt)
       THEN /\ pc' = "raised" /\ raised' = err
            /\ UNCHANGED <<attempt, sleeps>>
       ELSE /\ sleeps' = Append(sleeps, BackoffDelay(attempt))
            /\ attempt' = attempt + 1
            /\ pc' = "call"
            /\ UNCHANGED raised
    /\ UNCHANGED <<inputs, fileIdx, outputs, program, api_key, sdk, colIdx, results,
                   sentences, ret, err, calls, requests, chatReply, respReply,
                   pureVars, rearrVars>>

-----------------------------------------------------------------------------
(* merge_affectiveExpression.py: process_file *)

\* lines 141-146
ProcessRead ==
    /\ pc = "read"
    /\ LET r == raw_read_csv_smart(inputs[fileIdx])
       IN  IF r.ok
           THEN /\ pc' = "column" /\ colIdx' = 1 /\ results' = <<>>
                /\ UNCHANGED raised
           ELSE /\ pc' = "raised" /\ raised' = r.error
                /\ UNCHANGED <<colIdx, results>>
    /\ UNCHANGED <<inputs, fileIdx, outputs, program, api_key, sdk, sentences, attempt,
                   ret, err, calls, callLog, sleeps, requests, chatReply, respReply,
                   pureVars, rearrVars>>

\* merged_paragraph = ... if sentences else "" ; results.append(...)
EmptyColumnSkipped(code) == <<>>

EmptyColumnRecords(code) == << <<code, <<>>>> >>

\* lines 148-153 of one column: the sentences are collected; an empty list
\* gives the record (code, "") at once, any other list goes to backoff_call
ProcessColumn ==
    /\ pc = "column"
    /\ colIdx <= Len(inputs[fileIdx].columns)
    /\ LET code == sample_codes(inputs[fileIdx])[colIdx]
           s == column_sentences(inputs[fileIdx], colIdx)
       IN  /\ sentences' = s
           /\ IF s = <<>>
              THEN /\ results' = results \o EmptyColumnRecords(code)
                   /\ colIdx' = colIdx + 1
                   /\ pc' = "column"
              ELSE /\ pc' = "call"
                   /\ UNCHANGED <<results, colIdx>>
    /\ attempt' = 0 /\ ret' = <<>> /\ err' = NoError
    /\ calls' = 0 /\ callLog' = <<>> /\ sleeps' = <<>> /\ requests' = <<>>
    /\ chatReply' = NoReply /\ respReply' = NoReply
    /\ UNCHANGED <<inputs, fileIdx, outputs, raised, program, api_key, sdk,
                   pureVars, rearrVars>>

\* lines 155-157: the merged table is written; the function returns
ProcessSave ==
    /\ pc = "column"
    /\ colIdx > Len(inputs[fileIdx].columns)
    /\ outputs' = [outputs EXCEPT ![fileIdx] = [written |-> TRUE, rows |-> results]]
    /\ pc' = "returned"
    /\ UNCHANGED <<inputs, fileIdx, raised, mergeVars, pureVars, rearrVars>>

\* One call of process_file on one raw file
InitMerge ==
    /\ PureIdle /\ RearrIdle
    /\ program = "process_file"
    /\ pc = "read"
    /\ inputs \in {<<RawFile(c)>> : c \in RawTables(MaxCols)} \cup {<<UnparseableRawFile>>}
    /\ fileIdx = 1
    /\ outputs = <<NotWritten>>
    /\ raised = NoError
    /\ api_key \in BOOLEAN /\ sdk \in BOOLEAN
    /\ colIdx = 0 /\ results = <<>>
    /\ ColumnFresh

NextMerge ==
    \/ ProcessRead
    \/ ProcessColumn
    \/ MergeEntry
    \/ MergeChat
    \/ MergeResponses
    \/ BackoffReturn
    \/ BackoffExcept
    \/ ProcessSave

SpecMerge == InitMerge /\ [][NextMerge]_vars

-----------------------------------------------------------------------------
(* The two main functions: the files beauty, homeAppliance, life in turn *)

\* io_map of merge_affectiveExpression.main; the three rearrange_file calls
\* of merge_rearrange.main
FileNames == <<"beauty", "homeAppliance", "life">>

\* The canonical lists of merge_rearrange.main hold 40 literal codes each;
\* here each is cut to two codes over the model's alphabet, one of them
\* written with a trailing "/" as "HG-0760GP/" is.
beauty_order == << <<"A">>, <<"b", "/">> >>
home_order == << <<"b", " ">>, <<"C">> >>
life_order == << <<"a", "/">>, <<"C">> >>

\* for in_name, out_name in io_map.items(): process_file(...)
\* An exception of process_file is not caught: it ends main.
MergeMainLoop ==
    /\ program = "merge_main"
    /\ pc = "returned"
    /\ IF fileIdx < Len(FileNames)
       THEN /\ fileIdx' = fileIdx + 1 /\ pc' = "read"
       ELSE /\ pc' = "done" /\ UNCHANGED fileIdx
    /\ UNCHANGED <<inputs, outputs, raised, mergeVars, pureVars, rearrVars>>

\* the next rearrange_file call of main, or its last print.
\* An exception of rearrange_file is not caught: it ends main.
RearrangeMainLoop ==
    /\ program = "rearrange_main"
    /\ pc = "returned"
    /\ IF fileIdx < Len(FileNames)
       THEN /\ fileIdx' = fileIdx + 1 /\ pc' = "load"
       ELSE /\ pc' = "done" /\ UNCHANGED fileIdx
    /\ UNCHANGED <<inputs, outputs, raised, mergeVars, pureVars, rearrVars>>

MainRawFiles ==
    { UnparseableRawFile,
      RawFile(<< [header |-> <<"B">>, cells |-> <<Cell(<<"s">>), Cell(<<"t">>)>>] >>),
      RawFile(<< [header |-> <<"1", ".", " ", "A">>, cells |-> <<NaN, Cell(<<" ">>)>>] >>) }

MainMergedFiles ==
    { UnparseableFile, NarrowFile,
      TableFile(<< <<<<"a">>, "x">>, <<<<"B">>, "y">> >>) }

InitMain ==
    /\ PureIdle
    /\ fileIdx = 1
    /\ outputs = [i \in 1..Len(FileNames) |-> NotWritten]
    /\ raised = NoError
    /\ rowIdx = 0 /\ mapping = <<>> /\ ordIdx = 0
    /\ output_rows = <<>> /\ missing = <<>>
    /\ colIdx = 0 /\ results = <<>>
    /\ ColumnFresh
    /\ \/ /\ program = "merge_main"
          /\ pc = "read"
          /\ inputs \in [1..Len(FileNames) -> MainRawFiles]
          /\ api_key \in BOOLEAN /\ sdk \in BOOLEAN
          /\ orders = <<>>
       \/ /\ program = "rearrange_main"
          /\ pc = "load"
          /\ inputs \in [1..Len(FileNames) -> MainMergedFiles]
          /\ api_key = FALSE /\ sdk = FALSE
          /\ orders = <<beauty_order, home_order, life_order>>

NextMain ==
    \/ NextMerge
    \/ NextRearrange
    \/ MergeMainLoop
    \/ RearrangeMainLoop

SpecMain == InitMain /\ [][NextMain]_vars

-----------------------------------------------------------------------------
(* Claims about rearrange_file, checked under SpecRearrange *)

Keys(rows) == {normalize_code(rows[i][1]) : i \in 1..Len(rows)}

\* the first row of the table whose sample code normalizes to key
FirstRow(rows, key) ==
    rows[CHOOSE i \in 1..Len(rows) :
            /\ normalize_code(rows[i][1]) = key
            /\ \A j \in 1..(i - 1) : normalize_code(rows[j][1]) # key]

Present(code) == normalize_code(code) \in Keys(df)
Absent(code) == ~Present(code)

ExpectedRows ==
    LET hit == SelectSeq(desired_order, Present)
    IN  [i \in 1..Len(hit) |-> FirstRow(df, normalize_code(hit[i]))]

(* C4: rearrange_file emits, in canonical-list order, the stored (original
   sample_code, paragraph) pair of every canonical code whose normalized key
   is in the table; MissingKeys is, in canonical-list order, the canonical
   codes whose key is absent; the two lengths add up to the length of the
   canonical list; every emitted row is a row of the table (its original
   spelling); and once the table is loaded the run never aborts: the output
   written is the emitted rows. *)
C4_RearrangeOutput ==
    /\ pc = "returned" =>
        /\ output_rows = ExpectedRows
        /\ missing = SelectSeq(desired_order, Absent)
        /\ Len(output_rows) + Len(missing) = Len(desired_order)
        /\ \A i \in 1..Len(output_rows) :
              \E j \in 1..Len(df) : output_rows[i] = df[j]
        /\ outputs[fileIdx] = [written |-> TRUE, rows |-> output_rows]
    /\ pc = "raised" => inputs[fileIdx].kind # "table"

\* a run where a canonical code matched a row of another spelling, a canonical
\* code was missing, a table row matched no canonical code, and the output
\* was written
C4_Witness ==
    /\ pc = "returned"
    /\ missing # <<>>
    /\ \E i \in 1..Len(output_rows) :
          \A j \in 1..Len(desired_order) : output_rows[i][1] # desired_order[j]
    /\ \E j \in 1..Len(df) :
          \A i \in 1..Len(desired_order) :
              normalize_code(df[j][1]) # normalize_code(desired_order[i])
    /\ outputs[fileIdx].written

(* C5: first occurrence wins: while the mapping is built, an entry once
   inserted is never overwritten by a later row; so every emitted row is the
   earliest row of the table with its normalized key. *)
C5_FirstOccurrenceWins ==
    /\ pc \in {"index", "emit", "returned"} =>
          \A k \in DOMAIN mapping :
              /\ k \in Keys(SubSeq(df, 1, rowIdx - 1))
              /\ mapping[k] = FirstRow(df, k)
    /\ pc \in {"emit", "returned"} =>
          \A i \in 1..Len(output_rows) :
              output_rows[i] = FirstRow(df, normalize_code(output_rows[i][1]))

\* two rows of the same key and different paragraphs, and the key was emitted
C5_Witness ==
    /\ pc = "returned"
    /\ \E i, j \in 1..Len(df) :
          /\ i < j
          /\ normalize_code(df[i][1]) = normalize_code(df[j][1])
          /\ df[i] # df[j]
          /\ \E n \in 1..Len(output_rows) : output_rows[n] = df[i]

-----------------------------------------------------------------------------
(* Claims about backoff_call, call_openai_merge and process_file, checked
   under SpecMerge *)

RECURSIVE SumSeq(_)
SumSeq(q) == IF q = <<>> THEN 0 ELSE Head(q) + SumSeq(Tail(q))

Last(q) == q[Len(q)]
AllRaised(log) == \A i \in 1..Len(log) : log[i].raised

(* C1: when call_openai_merge raises on its first k invocations (k < 5) and
   succeeds on invocation k+1, backoff_call returns that success value, the
   call was invoked exactly k+1 times, and the sleeps are 2^0, ..., 2^(k-1)
   in that order (2^k - 1 in all), none after the success. *)
C1_RetryThenSuccess ==
    (callLog # <<>> /\ ~Last(callLog).raised) =>
        LET k == Len(callLog) - 1
        IN  /\ k < retries
            /\ AllRaised(SubSeq(callLog, 1, k))
            /\ calls = k + 1
            /\ sleeps = [i \in 1..k |-> 2 ^ (i - 1)]
            /\ SumSeq(sleeps) = 2 ^ k - 1
            /\ pc \in {"column", "returned"}
            /\ results # <<>>
            /\ Last(results)[2] = Last(callLog).value

\* four failures, then a paragraph
C1_Witness ==
    /\ Len(callLog) = retries
    /\ ~Last(callLog).raised
    /\ Last(callLog).value # <<>>
    /\ Last(results)[2] = Last(callLog).value

(* C2: when call_openai_merge raises on every invocation, it is invoked
   exactly 5 times, the sleeps are exactly 1, 2, 4, 8 with none after the
   fifth attempt, and backoff_call ends by propagating the error of the
   fifth invocation; it returns no value. *)
C2_RetriesExhausted ==
    /\ (Len(callLog) >= retries /\ AllRaised(callLog)) =>
          /\ Len(callLog) = retries
          /\ calls = retries
          /\ sleeps = <<1, 2, 4, 8>>
          /\ pc = "raised"
          /\ raised = callLog[retries].error
          /\ raised.invocation = retries
          /\ Len(results) = colIdx - 1
          /\ ~outputs[fileIdx].written
    /\ (pc = "raised" /\ raised.origin = "call_openai_merge") =>
          (Len(callLog) = retries /\ AllRaised(callLog))

\* five transport failures in a row, with the key and the package present
C2_Witness ==
    /\ pc = "raised"
    /\ api_key /\ sdk
    /\ Len(callLog) = retries
    /\ raised.type = "RuntimeError"

(* C3: when OPENAI_API_KEY is absent and the sentence list is not empty, the
   credential error is raised before any network request and is not retried:
   the merge client is invoked exactly once and no backoff sleep happens
   before the error reaches the caller. *)
C3_CredentialFailFast ==
    ~api_key =>
        /\ requests = <<>>
        /\ calls <= 1
        /\ sleeps = <<>>
        /\ callLog # <<>> => (pc = "raised" /\ raised.type = "EnvironmentError")

(* C6: when process_file completes, the merged table has exactly one record
   per input column, in column order, with the cleaned header as sample_code;
   and for every column whose sentence list is empty the paragraph is "" and
   that column caused no invocation of the merge client, no request and no
   sleep. *)
C6_OneRecordPerColumn ==
    (program = "process_file" /\ pc \in {"column", "call", "returned"}) =>
        LET file == inputs[fileIdx]
            codes == sample_codes(file)
        IN  /\ pc = "returned" =>
                  /\ outputs[fileIdx] = [written |-> TRUE, rows |-> results]
                  /\ Len(results) = Len(file.columns)
            /\ \A i \in 1..Len(results) :
                  /\ results[i][1] = codes[i]
                  /\ column_sentences(file, i) = <<>> => results[i][2] = <<>>
            /\ (pc # "call" /\ colIdx > 1 /\ column_sentences(file, colIdx - 1) = <<>>) =>
                  /\ Len(results) = colIdx - 1
                  /\ calls = 0 /\ callLog = <<>> /\ requests = <<>> /\ sleeps = <<>>

\* a completed file of two columns: one without sentences, one merged
C6_Witness ==
    /\ program = "process_file"
    /\ pc = "returned"
    /\ Len(results) = 2
    /\ column_sentences(inputs[fileIdx], 2) = <<>>
    /\ results[1][2] # <<>>
    /\ results[2][2] = <<>>
    /\ calls = 0

(* C10: within one invocation of call_openai_merge with sentences and key
   present, the chat request comes first; the responses request is issued
   only after the chat request failed, and at most once; a chat answer is
   returned stripped, without a responses request; and when both requests
   fail the invocation raises and returns nothing. *)
C10_OrderedFallback ==
    /\ requests \in {<<>>, <<"chat">>, <<"chat", "responses">>}
    /\ pc = "responses" => (requests = <<"chat">> /\ chatReply.kind = "raise")
    /\ respReply # NoReply => (requests = <<"chat", "responses">> /\ chatReply.kind = "raise")
    /\ chatReply.kind \notin {"none", "raise"} =>
          /\ requests = <<"chat">>
          /\ respReply = NoReply
          /\ ret = Strip(chatReply.content)
          /\ err = NoError
          /\ pc \in {"merge_returned", "column", "returned"}
    /\ (chatReply.kind = "raise" /\ respReply.kind = "raise") =>
          /\ pc \in {"merge_raised", "call", "raised"}
          /\ err = Error("RuntimeError", "call_openai_merge", calls)
          /\ ret = <<>>
          /\ pc # "merge_raised" => (callLog # <<>> /\ Last(callLog).raised)

\* both requests were issued and both failed
C10_Witness ==
    /\ pc = "merge_raised"
    /\ requests = <<"chat", "responses">>
    /\ chatReply.kind = "raise" /\ respReply.kind = "raise"
    /\ err.type = "RuntimeError"

-----------------------------------------------------------------------------
(* Claim about the main functions, checked under SpecMain *)

\* a file that loads and whose processing needs no remote call
Processable(j) ==
    /\ inputs[j].kind = "table"
    /\ program = "merge_main" =>
          \A i \in 1..Len(inputs[j].columns) : column_sentences(inputs[j], i) = <<>>

(* C9: a file that no candidate encoding parses does not affect the other
   files of the run: when main ends on the load error of one file, every
   other file that parses (and, in the merge stage, needs no remote call)
   has been processed and its output written. *)
C9_LoadFailureIsolated ==
    (pc = "raised" /\ raised.origin = "read_csv_smart") =>
        \A j \in 1..Len(inputs) :
            (j # fileIdx /\ Processable(j)) => outputs[j].written

-----------------------------------------------------------------------------
(* C7: normalize_code is idempotent and case-insensitive: for every code c,
   normalize_code(normalize_code(c)) = normalize_code(c) and
   normalize_code(c) = normalize_code(c.upper()), also when whitespace
   precedes a trailing "/" and when the code ends in several "/". *)
C7_NormalizeIdempotentCaseInsensitive ==
    /\ pcF \in {"twice", "done"} => twice = once
    /\ pcF = "done" => upper = once

(* C8: clean_header is idempotent on every header that has a leading
   enumeration marker: clean_header(clean_header(h)) = clean_header(h). *)
C8_CleanHeaderIdempotent ==
    (pcF = "done" /\ HasMarker(arg)) => twice = once

====
